---- MODULE Spec2Model ----
(***************************************************************************)
(* A model of the RLM Document Explorer backend:                           *)
(*   backend/rlm_pipeline.py  query_document, the Agent Invoker            *)
(*   backend/main.py          the document store and the HTTP endpoints    *)
(*   backend/ws_handler.py    handle_query_ws and its worker pool          *)
(*                                                                         *)
(* Strings the code trims or tests for blankness are sequences of          *)
(* one-character strings; other texts (messages, document texts) are       *)
(* opaque tokens.  An exception is a record [kind |-> "raise", ...]; a     *)
(* normal return is [kind |-> "return", value |-> ...].                    *)
(***************************************************************************)
EXTENDS Integers, Sequences, FiniteSets

VARIABLES
    documents,   \* main.py: the global dict id -> document record
    issued,      \* how many uuid4 ids upload_document has drawn so far
    resp,        \* the last HTTP exchange: request, response, invoker call
    chan,        \* per streaming channel: the handler's position and locals
    client,      \* per streaming channel: the client's end of the socket
    queue,       \* ws_handler.executor: work items submitted, not yet taken
    running,     \* ws_handler.executor: channels whose call runs on a worker
    inv_in,      \* a call of query_document under study: arguments, environment
    inv_out      \* what that call did: returned a Query Result or raised

vars == <<documents, issued, resp, chan, client, queue, running, inv_in, inv_out>>

(***************************************************************************)
(* Bounds of the model.                                                    *)
(***************************************************************************)
MaxDocs == 2        \* uploads that succeed in one run
MaxTraj == 2        \* entries in an engine trajectory (invoker study)
MaxHist == 2        \* LM history entries added by one engine call
MaxReplay == 2      \* entries in an engine trajectory (server runs)
PoolChannels == 3   \* streaming channels in a worker-pool run

(***************************************************************************)
(* Strings.                                                                *)
(***************************************************************************)
SP == " "

RECURSIVE lstrip(_)
lstrip(s) == IF s # <<>> /\ Head(s) = SP THEN lstrip(Tail(s)) ELSE s

RECURSIVE rstrip(_)
rstrip(s) ==
    IF s # <<>> /\ s[Len(s)] = SP THEN rstrip(SubSeq(s, 1, Len(s) - 1)) ELSE s

\* str.strip(): leading and trailing whitespace removed
strip(s) == rstrip(lstrip(s))

\* Python truthiness of a string: non-empty
Truthy(s) == s # <<>>

\* str(uuid.uuid4()): the n-th id drawn; ids never repeat and hold no blank
UuidChars == <<"a", "b", "c", "d", "e", "f">>
uuid4(n) == <<UuidChars[n]>>

(***************************************************************************)
(* rlm_pipeline.py: query_document.                                        *)
(***************************************************************************)
None == "None"
LLM_QUERY == "llm_query('sub question')"
NotSerializable == "<object>"

\* the entries an engine trajectory may hold: a non-dict, or a dict whose
\* values are texts, None, or an object json cannot encode
RawEntries ==
    {[kind |-> "nondict", reasoning |-> "", code |-> "", output |-> ""],
     [kind |-> "dict", reasoning |-> "think", code |-> "print(1)", output |-> "1"],
     [kind |-> "dict", reasoning |-> "ask", code |-> LLM_QUERY, output |-> "sub"],
     [kind |-> "dict", reasoning |-> "think", code |-> None, output |-> ""],
     [kind |-> "dict", reasoning |-> NotSerializable, code |-> "print(1)", output |-> "1"]}

\* isinstance(entry, dict)
isinstance_dict(entry) == entry.kind = "dict"

\* "llm_query" in code: a TypeError when code is None
contains_llm_query(code) == code = LLM_QUERY

SeqsUpTo(S, n) == UNION {[1..k -> S] : k \in 0..n}

\* lines 179-190: the trajectory of a Query Result; the iteration number is
\* the entry's position in the raw trajectory, plus one
RECURSIVE parse_trajectory(_, _)
parse_trajectory(raw, i) ==
    IF i > Len(raw) THEN <<>>
    ELSE IF isinstance_dict(raw[i])
         THEN <<[iteration |-> i,
                 reasoning |-> raw[i].reasoning,
                 code |-> raw[i].code,
                 output |-> raw[i].output]>> \o parse_trajectory(raw, i + 1)
         ELSE parse_trajectory(raw, i + 1)

\* the LM history entries one engine call may add (lines 198-207):
\* kind "dict" with a usage dict, kind "response" with response.usage,
\* "other" with neither; tokens "bad" is a total_tokens that is not a number
HistEntries ==
    {[kind |-> "dict", tokens |-> "3"],
     [kind |-> "response", tokens |-> "5"],
     [kind |-> "dict", tokens |-> "bad"],
     [kind |-> "other", tokens |-> "0"]}

TokenValue(e) == CASE e.tokens = "3" -> 3 [] e.tokens = "5" -> 5 [] OTHER -> 0

\* lines 193-210: best-effort sum; any exception while summing resets to 0
RECURSIVE sum_tokens(_)
sum_tokens(h) == IF h = <<>> THEN 0 ELSE TokenValue(Head(h)) + sum_tokens(Tail(h))

total_tokens_of(history) ==
    IF \E i \in 1..Len(history) : history[i].tokens = "bad"
    THEN 0
    ELSE sum_tokens(history)

\* line 213: sum(1 for t in trajectory if "llm_query" in t.get("code", ""))
RECURSIVE count_llm(_)
count_llm(traj) ==
    IF traj = <<>> THEN 0
    ELSE (IF contains_llm_query(Head(traj).code) THEN 1 ELSE 0) + count_llm(Tail(traj))

\* round(elapsed, 2): milliseconds to hundredths of a second, half up
round2(ms) == (ms + 5) \div 10

Raise(exc) == [kind |-> "raise", exc |-> exc]
Return(v) == [kind |-> "return", value |-> v]

\* a variant that keeps a count of the failed run
error_result_counting(msg, elapsed) ==
    [answer |-> <<"Error: ", msg>>,
     trajectory |-> <<>>,
     elapsed_time_s |-> round2(elapsed),
     iteration_count |-> 1,
     sub_llm_calls |-> 0,
     total_tokens |-> 0,
     depth |-> 1,
     error |-> msg]

\* lines 225-237: the except branch
error_result(msg, elapsed) ==
    [answer |-> <<"Error: ", msg>>,
     trajectory |-> <<>>,
     elapsed_time_s |-> round2(elapsed),
     iteration_count |-> 0,
     sub_llm_calls |-> 0,
     total_tokens |-> 0,
     depth |-> 1,
     error |-> msg]

\* lines 215-223: the normal return
ok_result(answer, trajectory, elapsed, tokens) ==
    [answer |-> <<answer>>,
     trajectory |-> trajectory,
     elapsed_time_s |-> round2(elapsed),
     iteration_count |-> Len(trajectory),
     sub_llm_calls |-> count_llm(trajectory),
     total_tokens |-> tokens,
     depth |-> 1,
     error |-> None]

\* lines 169-237: the try block around the engine call
query_document_try(env) ==
    LET raw == IF env.engine.trajectory.present THEN env.engine.trajectory.items ELSE <<>>
        trajectory == parse_trajectory(raw, 1)
    IN  IF env.engine.raises
        THEN error_result("engine failed", env.dur)
        ELSE IF \E i \in 1..Len(trajectory) : trajectory[i].code = None
        THEN error_result("argument of type 'NoneType' is not iterable", env.dur)
        ELSE IF ~env.engine.answer
        THEN error_result("object has no attribute 'answer'", env.dur)
        ELSE ok_result("the answer", trajectory, env.dur, total_tokens_of(env.history))

\* lines 111-132
ensure_deno_available(env) == env.deno

\* lines 135-142, 69-108: GOOGLE_API_KEY set and a Gemini model resolved
configure_dspy(env) ==
    IF ~env.key THEN Raise("ValueError: GOOGLE_API_KEY not set")
    ELSE IF ~env.model THEN Raise("ValueError: No compatible Gemini model found")
    ELSE Return("lm")

\* lines 145-237; a call with other than two positional arguments is a
\* TypeError before the body runs
TypeErrorArity ==
    Raise("TypeError: query_document() takes 2 positional arguments")

query_document(args, env) ==
    IF Len(args) # 2 THEN TypeErrorArity
    ELSE IF ~ensure_deno_available(env) THEN Raise("RuntimeError: Deno executable not found")
    ELSE IF configure_dspy(env).kind = "raise" THEN configure_dspy(env)
    ELSE Return(query_document_try(env))

\* what the process environment and the engine may do in one call
EngineRuns(n) ==
    {[raises |-> TRUE, trajectory |-> [present |-> FALSE, items |-> <<>>], answer |-> FALSE]}
    \cup {[raises |-> FALSE, trajectory |-> [present |-> FALSE, items |-> <<>>], answer |-> a] :
            a \in BOOLEAN}
    \cup {[raises |-> FALSE, trajectory |-> [present |-> TRUE, items |-> t], answer |-> a] :
            t \in SeqsUpTo(RawEntries, n), a \in BOOLEAN}

\* time.time() differences in milliseconds; the clock is taken not to step back
Durations == {0, 4, 1236}

Envs(n, h) ==
    [deno : BOOLEAN, key : BOOLEAN, model : BOOLEAN,
     engine : EngineRuns(n), history : SeqsUpTo(HistEntries, h), dur : Durations]


(***************************************************************************)
(* main.py: the document store and the HTTP endpoints.                     *)
(***************************************************************************)
PREVIEW_LEN == 500

\* Path(filename).suffix.lower() of the file names used here
suffix_lower(filename) ==
    CASE filename = "notes.txt" -> ".txt"
      [] filename = "paper.PDF" -> ".pdf"
      [] filename = "memo.docx" -> ".docx"
      [] filename = "tool.exe" -> ".exe"
      [] OTHER -> ""

SUPPORTED_EXTENSIONS == {".pdf", ".docx", ".doc", ".txt"}

\* an upload: the file name and what its bytes parse to ("broken": the
\* parser or the UTF-8 decoder raises)
Broken == <<"broken">>
GoodFiles ==
    {[filename |-> "notes.txt", content |-> <<"h", "i">>],
     [filename |-> "paper.PDF", content |-> <<SP, "y", "o", "u">>]}
Files ==
    GoodFiles \cup
    {[filename |-> "", content |-> <<"h", "i">>],
     [filename |-> "tool.exe", content |-> <<"h", "i">>],
     [filename |-> "notes.txt", content |-> Broken],
     [filename |-> "memo.docx", content |-> Broken],
     [filename |-> "paper.PDF", content |-> Broken],
     [filename |-> "notes.txt", content |-> <<SP, SP>>],
     [filename |-> "memo.docx", content |-> <<>>]}

NoBody == [none |-> TRUE]
\* detail is a sequence of text pieces: a fixed message, or a prefix and the
\* text of the exception it embeds
HTTPException(status, detail) == [status |-> status, detail |-> <<detail>>, body |-> NoBody]
QueryFailed(exc) == [status |-> 500, detail |-> <<"Query failed: ", exc>>, body |-> NoBody]
Ok(body) == [status |-> 200, detail |-> <<>>, body |-> body]

\* lines 96-131
extract_text(file) ==
    LET extension == suffix_lower(file.filename) IN
    IF extension \notin SUPPORTED_EXTENSIONS
    THEN Raise(HTTPException(400, "Unsupported file type. Supported types: .pdf, .docx, .doc, .txt"))
    ELSE IF file.content = Broken
    THEN CASE extension = ".pdf" -> Raise(HTTPException(400, "Failed to parse PDF file."))
           [] extension \in {".docx", ".doc"} ->
                Raise(HTTPException(400, "Failed to parse DOCX/DOC file."))
           [] OTHER -> Raise(HTTPException(400, "TXT files must be UTF-8 encoded."))
    ELSE Return(file.content)

Take(s, n) == SubSeq(s, 1, IF Len(s) < n THEN Len(s) ELSE n)

\* lines 134-160: the response, and the record stored (none on an error)
upload_document(file, document_id) ==
    IF file.filename = ""
    THEN [response |-> HTTPException(400, "Uploaded file must include a filename."), stored |-> FALSE]
    ELSE IF extract_text(file).kind = "raise"
    THEN [response |-> extract_text(file).exc, stored |-> FALSE]
    ELSE LET extracted_text == extract_text(file).value IN
         IF ~Truthy(strip(extracted_text))
         THEN [response |-> HTTPException(400, "Extracted text is empty."), stored |-> FALSE]
         ELSE [response |-> Ok([id |-> document_id,
                                filename |-> file.filename,
                                text_length |-> Len(extracted_text),
                                preview |-> Take(extracted_text, PREVIEW_LEN)]),
               stored |-> TRUE,
               record |-> [id |-> document_id,
                           filename |-> file.filename,
                           text |-> extracted_text,
                           text_length |-> Len(extracted_text),
                           preview |-> Take(extracted_text, PREVIEW_LEN)]]

\* lines 163-172: dict order is insertion order, the order the ids were drawn
RECURSIVE list_from(_, _, _)
list_from(docs, n, last) ==
    IF n > last THEN <<>>
    ELSE (IF uuid4(n) \in DOMAIN docs
          THEN <<[id |-> docs[uuid4(n)].id,
                  filename |-> docs[uuid4(n)].filename,
                  text_length |-> docs[uuid4(n)].text_length]>>
          ELSE <<>>) \o list_from(docs, n + 1, last)

list_documents(docs, last) == Ok([items |-> list_from(docs, 1, last)])

\* a variant that answers "deleted" whether or not the id is stored
delete_document_quiet(docs, doc_id) ==
    [response |-> Ok([status |-> "deleted"]), deleted |-> doc_id \in DOMAIN docs]

\* lines 175-181
delete_document(docs, doc_id) ==
    IF doc_id \notin DOMAIN docs
    THEN [response |-> HTTPException(404, "Document not found."), deleted |-> FALSE]
    ELSE [response |-> Ok([status |-> "deleted"]), deleted |-> TRUE]

\* lines 184-195
get_document(docs, doc_id) ==
    IF doc_id \notin DOMAIN docs
    THEN HTTPException(404, "Document not found.")
    ELSE Ok([id |-> docs[doc_id].id,
             filename |-> docs[doc_id].filename,
             text_length |-> docs[doc_id].text_length,
             preview |-> docs[doc_id].preview])

NotCalled == <<>>

\* a variant that looks at the credential before the question
query_document_endpoint_key_first(docs, request, env) ==
    IF ~Truthy(strip(request.api_key))
    THEN [response |-> HTTPException(400, "API key is required. Please configure your API key in Settings."),
          called |-> NotCalled]
    ELSE IF ~Truthy(strip(request.question))
    THEN [response |-> HTTPException(400, "Question cannot be empty."), called |-> NotCalled]
    ELSE IF ~Truthy(strip(request.model))
    THEN [response |-> HTTPException(400, "Model is required. Please select a model in Settings."),
          called |-> NotCalled]
    ELSE IF request.document_id \notin DOMAIN docs
    THEN [response |-> HTTPException(404, "Document not found."), called |-> NotCalled]
    ELSE LET args == <<docs[request.document_id].text, request.question,
                       request.model, request.api_key>>
             outcome == query_document(args, env)
         IN  IF outcome.kind = "raise"
             THEN [response |-> QueryFailed(outcome.exc), called |-> args]
             ELSE [response |-> Ok(outcome.value), called |-> args]

\* lines 198-225: the response and the arguments the Agent Invoker got
\* (NotCalled when line 218 is not reached)
query_document_endpoint(docs, request, env) ==
    IF ~Truthy(strip(request.question))
    THEN [response |-> HTTPException(400, "Question cannot be empty."), called |-> NotCalled]
    ELSE IF ~Truthy(strip(request.api_key))
    THEN [response |-> HTTPException(400, "API key is required. Please configure your API key in Settings."),
          called |-> NotCalled]
    ELSE IF ~Truthy(strip(request.model))
    THEN [response |-> HTTPException(400, "Model is required. Please select a model in Settings."),
          called |-> NotCalled]
    ELSE IF request.document_id \notin DOMAIN docs
    THEN [response |-> HTTPException(404, "Document not found."), called |-> NotCalled]
    ELSE LET args == <<docs[request.document_id].text, request.question,
                       request.model, request.api_key>>
             outcome == query_document(args, env)
         IN  IF outcome.kind = "raise"
             THEN [response |-> QueryFailed(outcome.exc),
                   called |-> args]
             ELSE [response |-> Ok(outcome.value), called |-> args]

\* the strings a client may put in a request: blank ones, ids drawn or not
\* yet drawn, and padded ones
IdStrings(n) ==
    {<<>>, <<SP>>, <<SP>> \o uuid4(1)} \cup {uuid4(k) : k \in 1..n}
QuestionStrings == {<<>>, <<SP>>, <<SP, "w", "h", "y", SP>>}
KeyStrings == {<<SP, SP>>, <<"k", "e", "y">>}
ModelStrings == {<<>>, <<"g", "p", "t">>}
QueryRequests(n) ==
    [document_id : IdStrings(n), question : QuestionStrings,
     api_key : KeyStrings, model : ModelStrings]
ValidQueryRequests(n) ==
    {r \in QueryRequests(n) :
        Truthy(strip(r.question)) /\ Truthy(strip(r.api_key)) /\ Truthy(strip(r.model))}

\* the environments drawn for the calls made by the server: the interpreter
\* is missing, or the engine raises, or it returns an answer and a trajectory
ServerEntries == {e \in RawEntries : e.code \notin {None, LLM_QUERY}}
ServerEnvs ==
    {env \in Envs(MaxReplay, 0) :
        /\ env.dur = 0 /\ env.key /\ env.model
        /\ env.engine.raises \/ (env.deno /\ env.engine.answer /\ env.engine.trajectory.present)
        /\ \A i \in 1..Len(env.engine.trajectory.items) :
              env.engine.trajectory.items[i] \in ServerEntries}
\* the same without the trajectories: what an endpoint that replays nothing
\* can tell apart
EndpointEnvs == {env \in ServerEnvs : env.engine.trajectory.items = <<>>}
\* for the worker pool: the interpreter is missing, or the engine returns
\* one full trajectory of plain steps
PoolEnvs ==
    {env \in ServerEnvs :
        \/ ~env.deno
        \/ /\ ~env.engine.raises
           /\ Len(env.engine.trajectory.items) = MaxReplay
           /\ \A i \in 1..MaxReplay : env.engine.trajectory.items[i].reasoning = "think"}

NoExchange == [op |-> "none", req |-> NoBody, status |-> 0, detail |-> <<>>,
               body |-> NoBody, called |-> NotCalled]
Exchange(op, req, response, called) ==
    [op |-> op, req |-> req, status |-> response.status, detail |-> response.detail,
     body |-> response.body, called |-> called]

ChannelVars == <<chan, client, queue, running>>
InvokerVars == <<inv_in, inv_out>>

Upload(files) ==
    \E file \in files :
        LET r == upload_document(file, uuid4(issued + 1)) IN
        /\ issued < MaxDocs
        /\ resp' = Exchange("upload", file, r.response, NotCalled)
        /\ IF r.stored
           THEN /\ documents' = [id \in DOMAIN documents \cup {r.record.id} |->
                                    IF id = r.record.id THEN r.record ELSE documents[id]]
                /\ issued' = issued + 1
           ELSE UNCHANGED <<documents, issued>>
        /\ UNCHANGED <<ChannelVars, InvokerVars>>

List ==
    /\ resp' = Exchange("list", NoBody, list_documents(documents, issued), NotCalled)
    /\ UNCHANGED <<documents, issued, ChannelVars, InvokerVars>>

Delete(ids) ==
    \E doc_id \in ids :
        LET r == delete_document(documents, doc_id) IN
        /\ resp' = Exchange("delete", [doc_id |-> doc_id], r.response, NotCalled)
        /\ documents' = IF r.deleted
                        THEN [id \in DOMAIN documents \ {doc_id} |-> documents[id]]
                        ELSE documents
        /\ UNCHANGED <<issued, ChannelVars, InvokerVars>>

Get(ids) ==
    \E doc_id \in ids :
        /\ resp' = Exchange("get", [doc_id |-> doc_id], get_document(documents, doc_id), NotCalled)
        /\ UNCHANGED <<documents, issued, ChannelVars, InvokerVars>>

Query(requests, envs) ==
    \E request \in requests, env \in envs :
        LET r == query_document_endpoint(documents, request, env) IN
        /\ resp' = Exchange("query", request, r.response, r.called)
        /\ UNCHANGED <<documents, issued, ChannelVars, InvokerVars>>

(***************************************************************************)
(* ws_handler.py: handle_query_ws and the worker pool.                     *)
(*                                                                         *)
(* A handler is a coroutine: chan[c].pc names the await it is suspended    *)
(* at, and one action completes that await and runs the handler to its     *)
(* next await (asyncio.sleep, which touches nothing, is folded into the    *)
(* step that follows the send before it).                                  *)
(***************************************************************************)
max_workers == 2

Msg(type, data) == [type |-> type, data |-> data]
ErrorMsg(text) == Msg("error", [message |-> text])
StatusMsg == Msg("status", [message |-> "RLM is exploring your document..."])
IterationMsg(entry) == Msg("iteration", entry)
\* lines 55-70
ResultMsg(result) ==
    Msg("result", [answer |-> result.answer,
                   metrics |-> [tokens |-> result.total_tokens,
                                time_s |-> result.elapsed_time_s,
                                iterations |-> result.iteration_count,
                                depth |-> result.depth,
                                sub_llm_calls |-> result.sub_llm_calls]])

\* json.dumps of the payload, the first thing send_json does
Serializable(msg) == msg.type = "iteration" => msg.data.reasoning # NotSerializable

\* await websocket.send_json(msg): the message goes out, or json.dumps
\* raises, or the socket is closed and the send raises (which exception
\* depends on the server library: WebSocketDisconnect or another one)
send_json(up, msg) ==
    IF ~Serializable(msg) THEN {"TypeError: not JSON serializable"}
    ELSE IF up THEN {"sent"}
    ELSE {"WebSocketDisconnect", "RuntimeError: socket closed"}

\* what a client may send as its one message
Received(n) ==
    {[kind |-> "text", document_id |-> <<>>, question |-> <<>>],
     [kind |-> "list", document_id |-> <<>>, question |-> <<>>]}
    \cup [kind : {"dict"}, document_id : IdStrings(n), question : QuestionStrings]

NoFuture == [kind |-> "none"]
Pending == [kind |-> "pending"]
NoMsg == Msg("none", NoBody)

\* the handler's locals: data (line 18), document_id, question (19-20), the
\* text of document (31, 46), result (43, here the future), the loop index;
\* out is the message of the send in progress; sent, raised and log record
\* what went out, whether an exception left the handler, and what it logged
NoData == [kind |-> "none", document_id |-> <<>>, question |-> <<>>]
IdleChan ==
    [pc |-> "idle", data |-> NoData, document_id |-> <<>>, question |-> <<>>, text |-> <<>>,
     out |-> NoMsg, future |-> NoFuture, idx |-> 0, sent |-> <<>>,
     raised |-> FALSE, log |-> "none"]

Up(c) == client[c] = "connected"

\* a variant that ends on every exception as it does on a disconnect
on_exception_silent(ch, exc) == [ch EXCEPT !.pc = "done", !.log = "info", !.out = NoMsg]

\* a variant without the except clauses: the exception leaves the handler
on_exception_uncaught(ch, exc) ==
    [ch EXCEPT !.pc = "done", !.raised = TRUE, !.out = NoMsg]

\* lines 72-80: an exception raised inside the try block
on_exception(ch, exc) ==
    IF exc = "WebSocketDisconnect"
    THEN [ch EXCEPT !.pc = "done", !.log = "info", !.out = NoMsg]
    ELSE [ch EXCEPT !.pc = "send_exc", !.log = "exception", !.out = ErrorMsg(exc)]

\* the handler suspended at `await websocket.send_json(msg)`
await_send(ch, pc, msg) == [ch EXCEPT !.pc = pc, !.out = msg]

\* a variant that walks the trajectory from its end
replay_reversed(ch, result, i) ==
    LET trajectory == result.trajectory IN
    IF i <= Len(trajectory)
    THEN [ch EXCEPT !.idx = i, !.pc = "send_iteration",
                    !.out = IterationMsg(trajectory[Len(trajectory) + 1 - i])]
    ELSE [ch EXCEPT !.idx = i, !.pc = "send_result", !.out = ResultMsg(result)]

\* lines 50-71: from the Query Result on, up to the next send
replay(ch, result, i) ==
    LET trajectory == result.trajectory IN
    IF i <= Len(trajectory)
    THEN await_send([ch EXCEPT !.idx = i], "send_iteration", IterationMsg(trajectory[i]))
    ELSE await_send([ch EXCEPT !.idx = i], "send_result", ResultMsg(result))

Disconnect(c) ==
    /\ client[c] = "connected"
    /\ chan[c].pc # "done"
    /\ client' = [client EXCEPT ![c] = "gone"]
    /\ UNCHANGED <<documents, issued, resp, chan, queue, running, InvokerVars>>

\* line 15: a client connects and the handler accepts the socket
Accept(c) ==
    /\ client[c] = "none"
    /\ chan[c].pc = "idle"
    /\ client' = [client EXCEPT ![c] = "connected"]
    /\ chan' = [chan EXCEPT ![c].pc = "receive"]
    /\ UNCHANGED <<documents, issued, resp, queue, running, InvokerVars>>

\* a variant that announces the exploration also when the lookup fails
receive_announcing(ch, docs, data) ==
    LET document_id == strip(data.document_id)
        question == strip(data.question)
        got == [ch EXCEPT !.data = data, !.document_id = document_id, !.question = question]
    IN  IF data.kind = "text" THEN on_exception(ch, "JSONDecodeError")
        ELSE IF data.kind = "list"
        THEN on_exception([ch EXCEPT !.data = data],
                          "AttributeError: 'list' object has no attribute 'get'")
        ELSE IF ~Truthy(document_id) \/ ~Truthy(question)
        THEN await_send(got, "send_error", ErrorMsg("Both document_id and question are required"))
        ELSE await_send([got EXCEPT !.text =
                            IF document_id \in DOMAIN docs THEN docs[document_id].text ELSE <<>>],
                        "send_status", StatusMsg)

\* lines 18-40, up to the first send
receive(ch, docs, data) ==
    LET document_id == strip(data.document_id)
        question == strip(data.question)
        got == [ch EXCEPT !.data = data, !.document_id = document_id, !.question = question]
    IN  IF data.kind = "text" THEN on_exception(ch, "JSONDecodeError")
        ELSE IF data.kind = "list"
        THEN on_exception([ch EXCEPT !.data = data],
                          "AttributeError: 'list' object has no attribute 'get'")
        ELSE IF ~Truthy(document_id) \/ ~Truthy(question)
        THEN await_send(got, "send_error", ErrorMsg("Both document_id and question are required"))
        ELSE IF document_id \notin DOMAIN docs
        THEN await_send(got, "send_error", ErrorMsg("Document not found"))
        ELSE await_send([got EXCEPT !.text = docs[document_id].text], "send_status", StatusMsg)

Receive(c, msgs) ==
    /\ chan[c].pc = "receive"
    /\ IF Up(c)
       THEN \E data \in msgs : chan' = [chan EXCEPT ![c] = receive(@, documents, data)]
       ELSE chan' = [chan EXCEPT ![c] = on_exception(@, "WebSocketDisconnect")]
    /\ UNCHANGED <<documents, issued, resp, client, queue, running, InvokerVars>>

\* lines 23-29 and 33-36: the error goes out and the handler returns
SendError(c) ==
    /\ chan[c].pc = "send_error"
    /\ \E o \in send_json(Up(c), chan[c].out) :
         chan' = [chan EXCEPT ![c] =
                    IF o = "sent"
                    THEN [@ EXCEPT !.pc = "done", !.sent = Append(@, chan[c].out), !.out = NoMsg]
                    ELSE on_exception(@, o)]
    /\ UNCHANGED <<documents, issued, resp, client, queue, running, InvokerVars>>

\* lines 38-48: the status goes out and the call is handed to the executor
SendStatus(c) ==
    /\ chan[c].pc = "send_status"
    /\ \E o \in send_json(Up(c), chan[c].out) :
         IF o = "sent"
         THEN /\ chan' = [chan EXCEPT ![c] =
                            [@ EXCEPT !.pc = "invoking", !.sent = Append(@, chan[c].out),
                                      !.out = NoMsg, !.future = Pending]]
              /\ queue' = Append(queue, c)
         ELSE /\ chan' = [chan EXCEPT ![c] = on_exception(@, o)]
              /\ UNCHANGED queue
    /\ UNCHANGED <<documents, issued, resp, client, running, InvokerVars>>

\* a pool that runs one call at a time
WorkerStart_single ==
    /\ queue # <<>>
    /\ running = {}
    /\ running' = {Head(queue)}
    /\ queue' = Tail(queue)
    /\ UNCHANGED <<documents, issued, resp, chan, client, InvokerVars>>

\* ThreadPoolExecutor: a free worker takes the oldest work item
WorkerStart ==
    /\ queue # <<>>
    /\ Cardinality(running) < max_workers
    /\ running' = running \cup {Head(queue)}
    /\ queue' = Tail(queue)
    /\ UNCHANGED <<documents, issued, resp, chan, client, InvokerVars>>

\* the worker runs query_document(document text, question) to its end
WorkerFinish(c, envs) ==
    /\ c \in running
    /\ \E env \in envs :
         chan' = [chan EXCEPT ![c].future =
                    query_document(<<chan[c].text, chan[c].question>>, env)]
    /\ running' = running \ {c}
    /\ UNCHANGED <<documents, issued, resp, client, queue, InvokerVars>>

\* line 43 returns or raises; lines 50-52 or 55-63 follow
AwaitResult(c) ==
    /\ chan[c].pc = "invoking"
    /\ chan[c].future.kind \in {"return", "raise"}
    /\ chan' = [chan EXCEPT ![c] =
                  IF chan[c].future.kind = "raise"
                  THEN on_exception(@, chan[c].future.exc)
                  ELSE replay(@, chan[c].future.value, 1)]
    /\ UNCHANGED <<documents, issued, resp, client, queue, running, InvokerVars>>

\* lines 51-53: one trajectory entry goes out, then the pacing sleep
SendIteration(c) ==
    /\ chan[c].pc = "send_iteration"
    /\ \E o \in send_json(Up(c), chan[c].out) :
         chan' = [chan EXCEPT ![c] =
                    IF o = "sent"
                    THEN replay([@ EXCEPT !.sent = Append(@, chan[c].out)],
                                chan[c].future.value, chan[c].idx + 1)
                    ELSE on_exception(@, o)]
    /\ UNCHANGED <<documents, issued, resp, client, queue, running, InvokerVars>>

\* lines 63-71: the result goes out and the handler ends
SendResult(c) ==
    /\ chan[c].pc = "send_result"
    /\ \E o \in send_json(Up(c), chan[c].out) :
         chan' = [chan EXCEPT ![c] =
                    IF o = "sent"
                    THEN [@ EXCEPT !.pc = "done", !.sent = Append(@, chan[c].out), !.out = NoMsg]
                    ELSE on_exception(@, o)]
    /\ UNCHANGED <<documents, issued, resp, client, queue, running, InvokerVars>>

\* lines 76-80: the error send of the except branch; its failure is swallowed
SendExc(c) ==
    /\ chan[c].pc = "send_exc"
    /\ \E o \in send_json(Up(c), chan[c].out) :
         chan' = [chan EXCEPT ![c] =
                    [@ EXCEPT !.pc = "done", !.out = NoMsg,
                              !.sent = IF o = "sent" THEN Append(@, chan[c].out) ELSE @]]
    /\ UNCHANGED <<documents, issued, resp, client, queue, running, InvokerVars>>

(***************************************************************************)
(* One call of query_document, studied on its own.                         *)
(***************************************************************************)
NoCall == [args |-> <<>>, env |-> NoBody]
NotRun == [kind |-> "none"]
DocText == <<"h", "i">>
InvokerArgs ==
    {<<DocText, <<"w", "h", "y">>>>,
     <<DocText, <<"w", "h", "y">>, <<"g", "p", "t">>, <<"k", "e", "y">>>>}

Invoke ==
    /\ inv_out = NotRun
    /\ inv_in # NoCall
    /\ inv_out' = query_document(inv_in.args, inv_in.env)
    /\ UNCHANGED <<documents, issued, resp, ChannelVars, inv_in>>

(***************************************************************************)
(* Specifications.                                                         *)
(***************************************************************************)
InitServer(n) ==
    /\ documents = <<>>
    /\ issued = 0
    /\ resp = NoExchange
    /\ chan = [c \in 1..n |-> IdleChan]
    /\ client = [c \in 1..n |-> "none"]
    /\ queue = <<>>
    /\ running = {}
    /\ inv_in = NoCall
    /\ inv_out = NotRun

\* the store with the endpoints that read and change it, beside one
\* streaming channel
Init == InitServer(1)
Next ==
    \/ Upload(GoodFiles)
    \/ Delete(IdStrings(MaxDocs))
    \/ Get(IdStrings(MaxDocs))
    \/ Query(ValidQueryRequests(MaxDocs), EndpointEnvs)
    \/ \E c \in DOMAIN chan : Accept(c)
    \/ \E c \in DOMAIN chan : Disconnect(c)
    \/ \E c \in DOMAIN chan : Receive(c, Received(MaxDocs))
    \/ \E c \in DOMAIN chan : SendError(c)
    \/ \E c \in DOMAIN chan : SendStatus(c)
    \/ WorkerStart
    \/ \E c \in DOMAIN chan : WorkerFinish(c, ServerEnvs)
    \/ \E c \in DOMAIN chan : AwaitResult(c)
    \/ \E c \in DOMAIN chan : SendIteration(c)
    \/ \E c \in DOMAIN chan : SendResult(c)
    \/ \E c \in DOMAIN chan : SendExc(c)
Spec == Init /\ [][Next]_vars

\* every HTTP endpoint over all its inputs
InitHttp == InitServer(0)
NextHttp ==
    \/ Upload(Files)
    \/ List
    \/ Delete(IdStrings(MaxDocs + 1))
    \/ Get(IdStrings(MaxDocs + 1))
    \/ Query(QueryRequests(MaxDocs + 1), EndpointEnvs)
SpecHttp == InitHttp /\ [][NextHttp]_vars

\* the worker pool under more channels than workers, over a seeded store
SeededDocuments ==
    [id \in {uuid4(1)} |->
        [id |-> uuid4(1), filename |-> "notes.txt", text |-> DocText,
         text_length |-> 2, preview |-> DocText]]
PoolMsgs ==
    {[kind |-> "dict", document_id |-> uuid4(1), question |-> <<"w", "h", "y">>],
     [kind |-> "dict", document_id |-> uuid4(2), question |-> <<"w", "h", "y">>]}
InitPool ==
    /\ documents = SeededDocuments
    /\ issued = 1
    /\ resp = NoExchange
    /\ chan = [c \in 1..PoolChannels |-> IdleChan]
    /\ client = [c \in 1..PoolChannels |-> "none"]
    /\ queue = <<>>
    /\ running = {}
    /\ inv_in = NoCall
    /\ inv_out = NotRun
NextPool ==
    \/ Delete({uuid4(1)})
    \/ \E c \in DOMAIN chan : Accept(c)
    \/ \E c \in DOMAIN chan : Disconnect(c)
    \/ \E c \in DOMAIN chan : Receive(c, PoolMsgs)
    \/ \E c \in DOMAIN chan : SendError(c)
    \/ \E c \in DOMAIN chan : SendStatus(c)
    \/ WorkerStart
    \/ \E c \in DOMAIN chan : WorkerFinish(c, PoolEnvs)
    \/ \E c \in DOMAIN chan : AwaitResult(c)
    \/ \E c \in DOMAIN chan : SendIteration(c)
    \/ \E c \in DOMAIN chan : SendResult(c)
    \/ \E c \in DOMAIN chan : SendExc(c)
SpecPool == InitPool /\ [][NextPool]_vars

\* the channels alone (no request changes the store), under the scheduling
\* the code relies on: the event loop resumes a handler whose await has
\* completed, a free worker takes the oldest work item, and the engine call
\* of every channel but the first comes to an end (dspy.RLM is bounded by
\* max_iterations and max_llm_calls); the call of channel 1 may block for ever
NextPoolFair ==
    \/ \E c \in DOMAIN chan : Accept(c)
    \/ \E c \in DOMAIN chan : Disconnect(c)
    \/ \E c \in DOMAIN chan : Receive(c, PoolMsgs)
    \/ \E c \in DOMAIN chan : SendError(c)
    \/ \E c \in DOMAIN chan : SendStatus(c)
    \/ WorkerStart
    \/ \E c \in DOMAIN chan : WorkerFinish(c, PoolEnvs)
    \/ \E c \in DOMAIN chan : AwaitResult(c)
    \/ \E c \in DOMAIN chan : SendIteration(c)
    \/ \E c \in DOMAIN chan : SendResult(c)
    \/ \E c \in DOMAIN chan : SendExc(c)
FairPool ==
    /\ WF_vars(WorkerStart)
    /\ \A d \in 2..PoolChannels :
         /\ WF_vars(WorkerFinish(d, PoolEnvs))
         /\ WF_vars(AwaitResult(d))
SpecPoolFair == InitPool /\ [][NextPoolFair]_vars /\ FairPool

\* query_document applied to every environment within the bounds
InitInvoker ==
    /\ documents = <<>>
    /\ issued = 0
    /\ resp = NoExchange
    /\ chan = <<>>
    /\ client = <<>>
    /\ queue = <<>>
    /\ running = {}
    /\ inv_in \in [args : InvokerArgs, env : Envs(MaxTraj, MaxHist)]
    /\ inv_out = NotRun
NextInvoker == Invoke
SpecInvoker == InitInvoker /\ [][NextInvoker]_vars

(***************************************************************************)
(* Properties of query_document (SpecInvoker).                             *)
(***************************************************************************)
Called == inv_out # NotRun /\ Len(inv_in.args) = 2

\* the setup before the try block: interpreter found, LM configured
SetupOk(env) == env.deno /\ env.key /\ env.model

\* the engine call raises, or its result cannot be normalised
EngineFails(env) ==
    \/ env.engine.raises
    \/ ~env.engine.answer
    \/ /\ env.engine.trajectory.present
       /\ \E i \in 1..Len(env.engine.trajectory.items) :
            /\ env.engine.trajectory.items[i].kind = "dict"
            /\ env.engine.trajectory.items[i].code = None

IsErrorResult(r) ==
    /\ r.trajectory = <<>>
    /\ r.iteration_count = 0
    /\ r.sub_llm_calls = 0
    /\ r.total_tokens = 0
    /\ Len(r.answer) = 2 /\ r.answer[1] = "Error: " /\ r.answer[2] = r.error
    /\ r.error # None
    /\ r.elapsed_time_s >= 0

\* C4 as claimed: query_document never propagates an exception; whenever the
\* invocation fails it returns the error-shaped Query Result.
C4_NeverPropagates ==
    Called =>
        /\ inv_out.kind = "return"
        /\ (~SetupOk(inv_in.env) \/ EngineFails(inv_in.env)) => IsErrorResult(inv_out.value)

\* C4 amended: once the setup before the try block has succeeded,
\* query_document never propagates an exception, and whenever the engine call
\* or the normalisation of its result fails it returns a Query Result with an
\* empty trajectory, zero counts, an answer prefixed with "Error", the
\* message in `error` and a non-negative elapsed time; a failure of the setup
\* (no interpreter, no credential, no model) is raised to the caller.
C4_EngineFailureAbsorbed ==
    Called =>
        /\ SetupOk(inv_in.env) => inv_out.kind = "return"
        /\ (SetupOk(inv_in.env) /\ EngineFails(inv_in.env)) => IsErrorResult(inv_out.value)
        /\ (SetupOk(inv_in.env) /\ ~EngineFails(inv_in.env)) =>
              (inv_out.value.error = None /\ inv_out.value.elapsed_time_s >= 0)
        /\ ~SetupOk(inv_in.env) => inv_out.kind = "raise"

C4_Witness ==
    /\ Called
    /\ SetupOk(inv_in.env)
    /\ inv_in.env.engine.raises
    /\ inv_out.kind = "return"
    /\ inv_out.value.error = "engine failed"

\* C8 as claimed: in every Query Result the steps carry the iteration numbers
\* 1, 2, ..., n in order, n = iteration_count, also when the engine
\* trajectory holds non-dict entries, which are dropped.
C8_SequentialIterations ==
    (Called /\ inv_out.kind = "return") =>
        /\ inv_out.value.iteration_count = Len(inv_out.value.trajectory)
        /\ \A i \in 1..Len(inv_out.value.trajectory) :
              inv_out.value.trajectory[i].iteration = i

(***************************************************************************)
(* Properties of POST /api/query (SpecHttp).  resp is the last exchange,   *)
(* and the store has not changed since a query was answered.               *)
(***************************************************************************)
\* blank after trimming: nothing but whitespace
Blank(s) == \A i \in 1..Len(s) : s[i] = SP

Refused(status, detail) ==
    resp.status = status /\ resp.detail = <<detail>> /\ resp.called = NotCalled

\* C6: POST /api/query checks blank question, blank credential, blank model,
\* document not found, in that order, answers with the error of the first
\* that fails (400, 400, 400, 404, each with its message), and does not call
\* the Agent Invoker when any fails.
C6_ValidationOrder ==
    resp.op = "query" =>
        LET r == resp.req IN
        /\ Blank(r.question) => Refused(400, "Question cannot be empty.")
        /\ (~Blank(r.question) /\ Blank(r.api_key)) =>
              Refused(400, "API key is required. Please configure your API key in Settings.")
        /\ (~Blank(r.question) /\ ~Blank(r.api_key) /\ Blank(r.model)) =>
              Refused(400, "Model is required. Please select a model in Settings.")
        /\ (~Blank(r.question) /\ ~Blank(r.api_key) /\ ~Blank(r.model)
              /\ r.document_id \notin DOMAIN documents) =>
              Refused(404, "Document not found.")

C6_Witness ==
    /\ resp.op = "query"
    /\ Blank(resp.req.question) /\ Blank(resp.req.api_key) /\ Blank(resp.req.model)
    /\ resp.req.document_id \notin DOMAIN documents
    /\ Refused(400, "Question cannot be empty.")

\* C5 as claimed: a request with a non-blank question, credential and model
\* and the id of a stored document makes the endpoint call the Agent Invoker
\* with the document's text and the question (and the model and credential)
\* and answer with the invoker's Query Result, not with a 4xx or 5xx error.
C5_ReturnsInvokerResult ==
    (/\ resp.op = "query"
     /\ ~Blank(resp.req.question) /\ ~Blank(resp.req.api_key) /\ ~Blank(resp.req.model)
     /\ resp.req.document_id \in DOMAIN documents) =>
        /\ resp.called = <<documents[resp.req.document_id].text, resp.req.question,
                           resp.req.model, resp.req.api_key>>
        /\ resp.status = 200
        /\ resp.body # NoBody

(***************************************************************************)
(* Properties of one streaming channel beside the store (Spec).            *)
(***************************************************************************)
Last(s) == s[Len(s)]
IsPrefix(s, t) == Len(s) <= Len(t) /\ \A i \in 1..Len(s) : s[i] = t[i]
Terminal == {"result", "error"}
Connected(c) == client[c] = "connected"
Ended(c) == chan[c].pc = "done"
InPool(c) == c \in running \/ \E i \in 1..Len(queue) : queue[i] = c

\* the lookup of line 31 found the document: its text is at hand
Resolved(c) == chan[c].text # <<>>
\* a well-formed request that was refused: blank, or naming no document
RefusedRequest(c) == chan[c].data.kind = "dict" /\ chan[c].text = <<>>
Returned(c) == chan[c].future.kind = "return"
Sendable(result) ==
    \A i \in 1..Len(result.trajectory) : result.trajectory[i].reasoning # NotSerializable

\* status, one iteration message per step in the trajectory's order, result
ExpectedStream(result) ==
    <<Msg("status", [message |-> "RLM is exploring your document..."])>>
    \o [i \in 1..Len(result.trajectory) |-> Msg("iteration", result.trajectory[i])]
    \o <<Msg("result",
             [answer |-> result.answer,
              metrics |-> [tokens |-> result.total_tokens,
                           time_s |-> result.elapsed_time_s,
                           iterations |-> result.iteration_count,
                           depth |-> result.depth,
                           sub_llm_calls |-> result.sub_llm_calls]])>>

\* C1 as claimed: a channel whose request names a stored document and a
\* non-blank question, and whose client stays connected, sends exactly one
\* status, one iteration per trajectory step of the Query Result in order,
\* and one result, which is the last message.
C1_StatusIterationsResult ==
    \A c \in DOMAIN chan :
        (Ended(c) /\ Connected(c) /\ Resolved(c)) =>
            (Returned(c) /\ chan[c].sent = ExpectedStream(chan[c].future.value))

\* C1 amended: the same, provided the Agent Invoker returns a Query Result
\* (does not raise) and every step of it can be encoded for sending; at
\* every moment what has been sent is a prefix of that stream.
C1_StreamOfReturnedResult ==
    \A c \in DOMAIN chan :
        (Resolved(c) /\ Returned(c) /\ Sendable(chan[c].future.value)) =>
            /\ IsPrefix(chan[c].sent, ExpectedStream(chan[c].future.value))
            /\ (Ended(c) /\ Connected(c)) =>
                  chan[c].sent = ExpectedStream(chan[c].future.value)

C1_Witness ==
    \E c \in DOMAIN chan :
        /\ Ended(c) /\ Connected(c) /\ Resolved(c) /\ Returned(c)
        /\ Len(chan[c].future.value.trajectory) = 2
        /\ Len(chan[c].sent) = 4
        /\ chan[c].sent[2].data.iteration < chan[c].sent[3].data.iteration
        /\ Last(chan[c].sent).type = "result"

\* C2 as claimed: on every path through the handler a result or an error
\* message has been sent before the handler ends.
C2_AlwaysTerminalMessage ==
    \A c \in DOMAIN chan :
        Ended(c) => (chan[c].sent # <<>> /\ Last(chan[c].sent).type \in Terminal)

\* C2 amended: on every path through the handler on which the client is still
\* connected when the handler ends, exactly one terminal message (result or
\* error) has been sent, and it is the last message.
C2_TerminalMessageWhileConnected ==
    \A c \in DOMAIN chan :
        (Ended(c) /\ Connected(c)) =>
            /\ chan[c].sent # <<>>
            /\ Last(chan[c].sent).type \in Terminal
            /\ \A i \in 1..(Len(chan[c].sent) - 1) : chan[c].sent[i].type \notin Terminal
            /\ ~chan[c].raised

C2_Witness ==
    \E c \in DOMAIN chan :
        /\ Ended(c) /\ Connected(c)
        /\ chan[c].future.kind = "raise"
        /\ Len(chan[c].sent) = 2
        /\ chan[c].sent[1].type = "status"
        /\ chan[c].sent[2].type = "error"

ExpectedError(c) ==
    IF Blank(chan[c].data.document_id) \/ Blank(chan[c].data.question)
    THEN Msg("error", [message |-> "Both document_id and question are required"])
    ELSE Msg("error", [message |-> "Document not found"])

\* C7 as claimed: a channel whose request has a blank document_id or
\* question, or names no stored document, sends exactly one error message
\* and no other, and never calls the Agent Invoker.
C7_ExactlyOneError ==
    \A c \in DOMAIN chan :
        (Ended(c) /\ RefusedRequest(c)) =>
            (chan[c].sent = <<ExpectedError(c)>> /\ chan[c].future = NoFuture)

\* C7 amended: such a channel never sends a status, iteration or result
\* message and never calls the Agent Invoker; it sends at most one message,
\* the error, and exactly that one when its client is still connected at the
\* end.
C7_OneErrorWhileConnected ==
    \A c \in DOMAIN chan :
        RefusedRequest(c) =>
            /\ chan[c].future = NoFuture
            /\ ~InPool(c)
            /\ IsPrefix(chan[c].sent, <<ExpectedError(c)>>)
            /\ (Ended(c) /\ Connected(c)) => chan[c].sent = <<ExpectedError(c)>>

C7_Witness ==
    \E c \in DOMAIN chan :
        /\ Ended(c) /\ Connected(c) /\ RefusedRequest(c)
        /\ ~Blank(chan[c].data.document_id) /\ ~Blank(chan[c].data.question)
        /\ chan[c].sent = <<Msg("error", [message |-> "Document not found"])>>

\* a step that answers an HTTP request about an id the store does not hold
HttpNotFound ==
    resp' # resp =>
        /\ (resp'.op \in {"get", "delete"} /\ resp'.req.doc_id \notin DOMAIN documents) =>
              /\ resp'.status = 404
              /\ resp'.detail = <<"Document not found.">>
              /\ documents' = documents
        /\ (/\ resp'.op = "query"
            /\ ~Blank(resp'.req.question) /\ ~Blank(resp'.req.api_key) /\ ~Blank(resp'.req.model)
            /\ resp'.req.document_id \notin DOMAIN documents) =>
              /\ resp'.status = 404
              /\ resp'.detail = <<"Document not found.">>
              /\ resp'.called = NotCalled

Receives(c) ==
    chan[c].pc = "receive" /\ chan'[c].pc # "receive" /\ chan'[c].data.kind = "dict"

\* C3 as claimed: for an id the store does not hold, GET and DELETE answer
\* 404, an otherwise valid POST /api/query answers 404, and a streaming query
\* with a question on that (non-blank) id gets the error "not found"; the
\* Agent Invoker is not called.
C3_AbsentIdNotFound ==
    [][/\ HttpNotFound
       /\ \A c \in DOMAIN chan :
            (/\ Receives(c)
             /\ ~Blank(chan'[c].data.question)
             /\ ~Blank(chan'[c].data.document_id)
             /\ chan'[c].data.document_id \notin DOMAIN documents) =>
                /\ chan'[c].out = Msg("error", [message |-> "Document not found"])
                /\ chan'[c].future = NoFuture]_vars

\* C3 amended: the same for GET, DELETE and POST /api/query; a streaming
\* query whose question is not blank and whose document_id, once trimmed, is
\* not blank and not in the store at the lookup is answered with the error
\* "Document not found" (received as the only message by a client that stays
\* connected), takes no document text and never reaches the Agent Invoker.
C3_AbsentTrimmedIdNotFound ==
    /\ [][/\ HttpNotFound
          /\ \A c \in DOMAIN chan :
               (/\ Receives(c)
                /\ ~Blank(chan'[c].data.question)
                /\ ~Blank(chan'[c].data.document_id)
                /\ strip(chan'[c].data.document_id) \notin DOMAIN documents) =>
                   /\ chan'[c].pc = "send_error"
                   /\ chan'[c].out = Msg("error", [message |-> "Document not found"])
                   /\ chan'[c].text = <<>>
                   /\ chan'[c].future = NoFuture]_vars
    /\ [](\A c \in DOMAIN chan :
            RefusedRequest(c) =>
                /\ chan[c].future = NoFuture
                /\ ~InPool(c)
                /\ (/\ Ended(c) /\ Connected(c)
                    /\ ~Blank(chan[c].data.question) /\ ~Blank(chan[c].data.document_id)) =>
                      chan[c].sent = <<Msg("error", [message |-> "Document not found"])>>)

C3_Witness ==
    /\ issued >= 1
    /\ uuid4(1) \notin DOMAIN documents
    /\ resp.op = "delete" /\ resp.req.doc_id = uuid4(1) /\ resp.status = 404
    /\ \E c \in DOMAIN chan :
        /\ Ended(c)
        /\ chan[c].document_id = uuid4(1)
        /\ chan[c].sent = <<Msg("error", [message |-> "Document not found"])>>

(***************************************************************************)
(* Properties of the channels sharing the worker pool (SpecPool).          *)
(***************************************************************************)
Gone(c) == client[c] = "gone"
Finished(c) == chan[c].future.kind \in {"return", "raise"}

\* C10: after its client has disconnected a channel sends nothing more and
\* ends without an exception leaving the handler; a call already handed to
\* the worker pool is not cancelled (it leaves the pool only by running to
\* its end, which it always can) and its result is dropped; the steps of that
\* channel leave the document store and the other channels as they were.
C10_DisconnectIsQuiet ==
    /\ [][\A c \in DOMAIN chan :
            /\ Gone(c) => chan'[c].sent = chan[c].sent
            /\ (InPool(c) /\ ~InPool(c)') => (c \in running /\ Finished(c)')
            /\ (Gone(c) /\ chan'[c] # chan[c]) =>
                  /\ documents' = documents
                  /\ \A d \in DOMAIN chan \ {c} : chan'[d] = chan[d] /\ client'[d] = client[d]]_vars
    /\ [](\A c \in DOMAIN chan :
            /\ (Ended(c) /\ Gone(c)) => ~chan[c].raised
            /\ c \in running => ENABLED WorkerFinish(c, PoolEnvs))

C10_Witness ==
    \E c \in DOMAIN chan :
        /\ Ended(c) /\ Gone(c) /\ Returned(c)
        /\ Len(chan[c].future.value.trajectory) = MaxReplay
        /\ chan[c].sent = <<StatusMsg>>
        /\ ~chan[c].raised

\* the step the event loop or the pool can take next for channel d
CanStep(d) ==
    /\ chan[d].pc = "idle" => ENABLED Accept(d)
    /\ chan[d].pc = "receive" => ENABLED Receive(d, PoolMsgs)
    /\ chan[d].pc = "send_error" => ENABLED SendError(d)
    /\ chan[d].pc = "send_status" => ENABLED SendStatus(d)
    /\ (chan[d].pc = "invoking" /\ Finished(d)) => ENABLED AwaitResult(d)
    /\ chan[d].pc = "send_iteration" => ENABLED SendIteration(d)
    /\ chan[d].pc = "send_result" => ENABLED SendResult(d)
    /\ chan[d].pc = "send_exc" => ENABLED SendExc(d)
    /\ d \in running => ENABLED WorkerFinish(d, PoolEnvs)

\* C9: a call in progress for one channel does not block the others: while
\* it runs, every other channel can take its next step (be accepted,
\* validated, answered with an error, replayed), a queued call can start or
\* waits for a call other than that one, and, with channel 1's call blocked
\* for ever, every other channel's call still comes to an end.
C9_CallDoesNotBlockOthers ==
    /\ [](\A c \in running :
            /\ \A d \in DOMAIN chan \ {c} : CanStep(d)
            /\ queue # <<>> =>
                  \/ ENABLED WorkerStart
                  \/ \E e \in running \ {c} : ENABLED WorkerFinish(e, PoolEnvs))
    /\ \A d \in 2..PoolChannels :
          (chan[d].pc = "invoking") ~> (chan[d].pc # "invoking")

\* channel 1's call is running; meanwhile another channel's call has ended
\* and is being replayed, and a third channel has its call in the pool
C9_Witness ==
    /\ 1 \in running
    /\ \E d, e \in DOMAIN chan \ {1} :
          /\ d # e
          /\ Returned(d) /\ chan[d].pc = "send_iteration"
          /\ InPool(e)

====
